---- MODULE Spec2Model ----
(***************************************************************************)
(* Model of Backend/api.py: the mock statistics synthesizer                *)
(* (generate_mock_player_stats, generate_performance_trends,               *)
(* generate_heat_map_data) and the process-wide memo cache MOCK_PLAYERS_DB *)
(* as the request handlers get_player_profile and get_team_players use it. *)
(*                                                                         *)
(* Floats are exact rationals <<numerator, denominator>> in lowest terms.  *)
(* The random source is a tape of unit fractions u/UnitDen: the n-th draw  *)
(* of a call reads cell ((n-1) % Len(tape)) + 1 of the tape.               *)
(*                                                                         *)
(* SpecStats, SpecTrends and SpecHeat each make one call of a synthesis    *)
(* function on inputs drawn by Init.  SpecServer runs the handlers against *)
(* the cache.  search_players, compare_players, get_top_performers and     *)
(* get_league_leaders reach the cache only by awaiting the two modelled    *)
(* handlers and are not modelled as requests of their own.                 *)
(***************************************************************************)
EXTENDS Integers, Sequences, FiniteSets, TLC

VARIABLES fn, position, rnd, clock, result, MOCK_PLAYERS_DB, requests

vars == <<fn, position, rnd, clock, result, MOCK_PLAYERS_DB, requests>>

(* ------------------------------ bounds --------------------------------- *)

\* number of independent cells of the random tape, per specification
TapeLen == 5
TrendTapeLen == 3
HeatTapeLen == 4
\* clock ticks per calendar day, and how far the clock may advance during a call
TicksPerDay == 2
MaxClockAdvance == 1
\* requests the server receives, players of an upstream squad
MaxRequests == 2
MaxSquad == 1
\* a random unit value is u/UnitDen with u in 0..UnitDen
UnitDen == 2

(* ----------------------------- rationals ------------------------------- *)

RECURSIVE GCD(_, _)
GCD(a, b) == IF b = 0 THEN a ELSE GCD(b, a % b)

\* the float n/d (d > 0, n >= 0), in lowest terms
Frac(n, d) == LET g == GCD(n, d) IN <<n \div g, d \div g>>

\* float multiplication by an integer
FracTimes(q, k) == Frac(q[1] * k, q[2])

\* q1 <= q2
FracLeq(q1, q2) == q1[1] * q2[2] <= q2[1] * q1[2]

(* --------------------------- random source ----------------------------- *)

\* the tapes of k independent cells
Tapes(k) == [1..k -> 0..UnitDen]

\* the unit value of the n-th draw of a call
U(tape, n) == tape[((n - 1) % Len(tape)) + 1]

\* random.randint(a, b): an integer of a..b, both ends included
randint(a, b, u) == a + ((b - a) * u) \div UnitDen

\* random.uniform(a, b) == a + (b - a) * random(), a and b floats
uniform(a, b, u) ==
    Frac(a[1] * b[2] * UnitDen + (b[1] * a[2] - a[1] * b[2]) * u, a[2] * b[2] * UnitDen)

(* ------------------------------ positions ------------------------------ *)

\* position strings the upstream API or a caller may pass
Positions ==
    {"Goalkeeper", "Goalie",
     "Defender", "Centre-Back", "Left-Back", "Right-Back",
     "Midfielder", "Defensive Midfield", "Central Midfield", "Attacking Midfield",
     "Winger", "Left Winger", "Right Winger",
     "Forward", "Centre-Forward", "Striker",
     "", "Unknown Position", "goalkeeper", "Offence"}

(* --------------------- generate_mock_player_stats ---------------------- *)

\* the dict literal of step 1; draws 1..13 in the order of the literal
base_stats(tape) ==
    [appearances        |-> randint(15, 35, U(tape, 1)),
     minutes_played     |-> randint(800, 2500, U(tape, 2)),
     goals              |-> 0,
     assists            |-> 0,
     yellow_cards       |-> randint(0, 8, U(tape, 3)),
     red_cards          |-> randint(0, 1, U(tape, 4)),
     passes_completed   |-> randint(200, 1500, U(tape, 5)),
     pass_accuracy      |-> uniform(<<70, 1>>, <<95, 1>>, U(tape, 6)),
     tackles            |-> randint(10, 80, U(tape, 7)),
     interceptions      |-> randint(5, 60, U(tape, 8)),
     aerial_duels_won   |-> randint(10, 100, U(tape, 9)),
     shots              |-> randint(5, 80, U(tape, 10)),
     shots_on_target    |-> randint(2, 40, U(tape, 11)),
     dribbles_completed |-> randint(5, 50, U(tape, 12)),
     fouls_committed    |-> randint(5, 40, U(tape, 13)),
     clean_sheets       |-> 0]

\* dict.update: the entries of upd replace or extend those of d
update(d, upd) == upd @@ d

goalkeeper_update(tape) ==
    [goals          |-> 0,
     assists        |-> randint(0, 2, U(tape, 14)),
     saves          |-> randint(40, 120, U(tape, 15)),
     clean_sheets   |-> randint(5, 15, U(tape, 16)),
     goals_conceded |-> randint(15, 45, U(tape, 17)),
     pass_accuracy  |-> uniform(<<40, 1>>, <<70, 1>>, U(tape, 18))]

defender_update(tape) ==
    [goals            |-> randint(0, 5, U(tape, 14)),
     assists          |-> randint(0, 8, U(tape, 15)),
     tackles          |-> randint(30, 80, U(tape, 16)),
     interceptions    |-> randint(20, 60, U(tape, 17)),
     aerial_duels_won |-> randint(30, 100, U(tape, 18)),
     clean_sheets     |-> randint(8, 18, U(tape, 19))]

midfielder_update(tape) ==
    [goals              |-> randint(2, 12, U(tape, 14)),
     assists            |-> randint(3, 15, U(tape, 15)),
     passes_completed   |-> randint(800, 1500, U(tape, 16)),
     pass_accuracy      |-> uniform(<<80, 1>>, <<95, 1>>, U(tape, 17)),
     dribbles_completed |-> randint(20, 50, U(tape, 18))]

winger_update(tape) ==
    [goals              |-> randint(5, 15, U(tape, 14)),
     assists            |-> randint(8, 20, U(tape, 15)),
     dribbles_completed |-> randint(30, 60, U(tape, 16)),
     shots              |-> randint(30, 80, U(tape, 17)),
     shots_on_target    |-> randint(15, 40, U(tape, 18))]

\* mutant: the shots override keeps the step-1 lower end
forward_update_low_shots(tape) ==
    [goals            |-> randint(8, 25, U(tape, 14)),
     assists          |-> randint(3, 12, U(tape, 15)),
     shots            |-> randint(5, 120, U(tape, 16)),
     shots_on_target  |-> randint(25, 60, U(tape, 17)),
     aerial_duels_won |-> randint(40, 100, U(tape, 18))]

forward_update(tape) ==
    [goals            |-> randint(8, 25, U(tape, 14)),
     assists          |-> randint(3, 12, U(tape, 15)),
     shots            |-> randint(50, 120, U(tape, 16)),
     shots_on_target  |-> randint(25, 60, U(tape, 17)),
     aerial_duels_won |-> randint(40, 100, U(tape, 18))]

\* the tests `position in [...]` of the if/elif chain
\* mutant: the label "Goalie" is missing from the list
stats_is_goalkeeper_one_label(pos) == pos \in {"Goalkeeper"}
\* mutant: the labels are compared ignoring case
stats_is_goalkeeper_ignorecase(pos) == pos \in {"Goalkeeper", "Goalie", "goalkeeper", "goalie"}
stats_is_goalkeeper(pos) == pos \in {"Goalkeeper", "Goalie"}
stats_is_defender(pos) == pos \in {"Defender", "Centre-Back", "Left-Back", "Right-Back"}
stats_is_midfielder(pos) ==
    pos \in {"Midfielder", "Defensive Midfield", "Central Midfield", "Attacking Midfield"}
stats_is_winger(pos) == pos \in {"Winger", "Left Winger", "Right Winger"}
stats_is_forward(pos) == pos \in {"Forward", "Centre-Forward", "Striker"}

\* the if/elif chain of the position-specific adjustments
position_adjust(pos, tape, stats) ==
    IF stats_is_goalkeeper(pos) THEN update(stats, goalkeeper_update(tape))
    ELSE IF stats_is_defender(pos) THEN update(stats, defender_update(tape))
    ELSE IF stats_is_midfielder(pos) THEN update(stats, midfielder_update(tape))
    ELSE IF stats_is_winger(pos) THEN update(stats, winger_update(tape))
    ELSE IF stats_is_forward(pos) THEN update(stats, forward_update(tape))
    ELSE stats

\* "Calculate derived stats": three keys added to the adjusted dict
derived_stats(stats) ==
    update(stats,
      [shot_accuracy  |-> IF stats.shots > 0
                            THEN FracTimes(Frac(stats.shots_on_target, stats.shots), 100)
                            ELSE <<0, 1>>,
       goals_per_90   |-> IF stats.minutes_played > 0
                            THEN FracTimes(Frac(stats.goals, stats.minutes_played), 90)
                            ELSE <<0, 1>>,
       assists_per_90 |-> IF stats.minutes_played > 0
                            THEN FracTimes(Frac(stats.assists, stats.minutes_played), 90)
                            ELSE <<0, 1>>])

\* mutant: the derived metrics are computed before the position override
generate_mock_player_stats_derived_first(pos, tape) ==
    position_adjust(pos, tape, derived_stats(base_stats(tape)))

generate_mock_player_stats(pos, tape) ==
    derived_stats(position_adjust(pos, tape, base_stats(tape)))

(* ------------------------------ datetime ------------------------------- *)

\* a datetime is a number of ticks since 1970-01-01 00:00, TicksPerDay to the day

\* the proleptic Gregorian date <<year, month, day>> of day number z
civil_from_days(z) ==
    LET zz  == z + 719468
        era == zz \div 146097
        doe == zz - era * 146097
        yoe == (doe - doe \div 1460 + doe \div 36524 - doe \div 146096) \div 365
        doy == doe - (365 * yoe + yoe \div 4 - yoe \div 100)
        mp  == (5 * doy + 2) \div 153
        d   == doy - (153 * mp + 2) \div 5 + 1
        m   == IF mp < 10 THEN mp + 3 ELSE mp - 9
        y   == yoe + era * 400 + (IF m <= 2 THEN 1 ELSE 0)
    IN  <<y, m, d>>

\* the day number of the date <<year, month, day>>
days_from_civil(date) ==
    LET y   == date[1] - (IF date[2] <= 2 THEN 1 ELSE 0)
        era == y \div 400
        yoe == y - era * 400
        mp  == IF date[2] > 2 THEN date[2] - 3 ELSE date[2] + 9
        doy == (153 * mp + 2) \div 5 + date[3] - 1
        doe == yoe * 365 + yoe \div 4 - yoe \div 100 + doy
    IN  era * 146097 + doe - 719468

\* dt - timedelta(days=n)
minus_days(dt, n) == dt - n * TicksPerDay

\* dt.strftime("%Y-%m-%d"): the time of day is dropped
strftime_ymd(dt) == civil_from_days(dt \div TicksPerDay)

\* round(x, 1): to the nearest tenth, ties to the even tenth
round1(q) ==
    LET num == 10 * q[1]
        fl  == num \div q[2]
        r2  == 2 * (num % q[2])
        t   == IF r2 > q[2] THEN fl + 1
               ELSE IF r2 < q[2] THEN fl
               ELSE IF fl % 2 = 0 THEN fl ELSE fl + 1
    IN  Frac(t, 10)

(* --------------------- generate_performance_trends --------------------- *)

\* mutant: the label list of the statistics synthesizer is reused
trends_is_attacking_stats_labels(pos) ==
    pos \in {"Forward", "Centre-Forward", "Striker", "Winger", "Left Winger", "Right Winger"}
trends_is_attacking(pos) == pos \in {"Forward", "Striker", "Winger"}
trends_is_midfielder(pos) == pos \in {"Midfielder"}

\* one pass of `for i in range(10)`: nows[i + 1] is what datetime.now()
\* returns in pass i; the pass makes draws 4i+1 .. 4i+4
trends_pass(pos, tape, nows, i, trends) ==
    LET match_date == minus_days(nows[i + 1], (9 - i) * 7)
        goals   == IF trends_is_attacking(pos) THEN randint(0, 2, U(tape, 4 * i + 1))
                   ELSE randint(0, 1, U(tape, 4 * i + 1))
        assists == IF trends_is_attacking(pos) THEN randint(0, 1, U(tape, 4 * i + 2))
                   ELSE IF trends_is_midfielder(pos) THEN randint(0, 2, U(tape, 4 * i + 2))
                   ELSE randint(0, 1, U(tape, 4 * i + 2))
    IN  [matches |-> Append(trends.matches, strftime_ymd(match_date)),
         goals   |-> Append(trends.goals, goals),
         assists |-> Append(trends.assists, assists),
         rating  |-> Append(trends.rating, round1(uniform(<<6, 1>>, <<19, 2>>, U(tape, 4 * i + 3)))),
         minutes |-> Append(trends.minutes, randint(60, 90, U(tape, 4 * i + 4)))]

RECURSIVE trends_loop(_, _, _, _, _)
trends_loop(pos, tape, nows, i, trends) ==
    IF i = 10 THEN trends
    ELSE trends_loop(pos, tape, nows, i + 1, trends_pass(pos, tape, nows, i, trends))

generate_performance_trends(pos, tape, nows) ==
    trends_loop(pos, tape, nows, 0,
                [matches |-> <<>>, goals |-> <<>>, assists |-> <<>>,
                 rating |-> <<>>, minutes |-> <<>>])

(* ------------------------ generate_heat_map_data ----------------------- *)

grid_size == 10

heat_is_goalkeeper(pos) == pos \in {"Goalkeeper", "Goalie"}
heat_is_defender(pos) == pos \in {"Defender"}
heat_is_midfielder(pos) == pos \in {"Midfielder"}
heat_is_forward(pos) == pos \in {"Forward", "Striker"}

\* mutant: the middle zone starts one column late
midfield_zone_off_by_one(j) == 2 < j /\ j <= 7
\* `2 <= j <= 7`
midfield_zone(j) == 2 <= j /\ j <= 7

\* the value stored in heat_map[i][j] (i, j from 0); the nested loops make
\* draw number i * grid_size + j + 1 for it
heat_cell(pos, tape, i, j) ==
    LET u == U(tape, i * grid_size + j + 1)
    IN  IF heat_is_goalkeeper(pos)
          THEN (IF j < 3 THEN randint(20, 80, u) ELSE randint(0, 10, u))
        ELSE IF heat_is_defender(pos)
          THEN (IF j < 5 THEN randint(30, 90, u) ELSE randint(5, 40, u))
        ELSE IF heat_is_midfielder(pos)
          THEN (IF midfield_zone(j) THEN randint(40, 100, u) ELSE randint(10, 50, u))
        ELSE IF heat_is_forward(pos)
          THEN (IF j >= 5 THEN randint(50, 100, u) ELSE randint(10, 60, u))
        ELSE randint(10, 80, u)

\* max(row) and min(row) of a non-empty list
max(row) == CHOOSE x \in {row[k] : k \in DOMAIN row} : \A k \in DOMAIN row : row[k] <= x
min(row) == CHOOSE x \in {row[k] : k \in DOMAIN row} : \A k \in DOMAIN row : x <= row[k]

\* mutant: the two reductions look at the first row only
generate_heat_map_data_first_row(pos, tape) ==
    LET heat_map == [i \in 1..grid_size |->
                        [j \in 1..grid_size |-> heat_cell(pos, tape, i - 1, j - 1)]]
    IN  [grid      |-> heat_map,
         max_value |-> max(heat_map[1]),
         min_value |-> min(heat_map[1])]

\* heat_map[i][j] is grid[i + 1][j + 1]
generate_heat_map_data(pos, tape) ==
    LET heat_map == [i \in 1..grid_size |->
                        [j \in 1..grid_size |-> heat_cell(pos, tape, i - 1, j - 1)]]
    IN  [grid      |-> heat_map,
         max_value |-> max([i \in 1..grid_size |-> max(heat_map[i])]),
         min_value |-> min([i \in 1..grid_size |-> min(heat_map[i])])]

(* ------------------------- values of idle state ------------------------ *)

NoResult == [none |-> TRUE]
NoClock == <<>>
NoTape == <<0>>
EmptyDB == [id \in {} |-> NoResult]

(* ------------- specification: one call of the synthesizer -------------- *)

\* the specifications of a single call leave the server alone
ServerIdle ==
    /\ MOCK_PLAYERS_DB = EmptyDB
    /\ requests = <<>>

InitStats ==
    /\ fn = "none"
    /\ position \in Positions
    /\ rnd \in Tapes(TapeLen)
    /\ clock = NoClock
    /\ result = NoResult
    /\ ServerIdle

CallStats ==
    /\ fn = "none"
    /\ fn' = "generate_mock_player_stats"
    /\ result' = generate_mock_player_stats(position, rnd)
    /\ UNCHANGED <<position, rnd, clock, MOCK_PLAYERS_DB, requests>>

NextStats == CallStats

SpecStats == InitStats /\ [][NextStats]_vars

(* ---------------- specification: one call of the trends ---------------- *)

\* the days on which a call may start
StartDays ==
    {days_from_civil(<<2024, 2, 29>>), days_from_civil(<<2024, 12, 31>>)}

\* the first and the last tick of each start day
StartTimes ==
    {d * TicksPerDay : d \in StartDays} \cup {d * TicksPerDay + TicksPerDay - 1 : d \in StartDays}

\* the ten readings of datetime.now() of a call that starts at t0: the clock
\* advances at most once during the call, by at most MaxClockAdvance ticks,
\* after reading number c
ClockReadings(t0) ==
    {[k \in 1..10 |-> IF k > c THEN t0 + a ELSE t0] :
        c \in 1..10, a \in 0..MaxClockAdvance}

InitTrends ==
    /\ fn = "none"
    /\ position \in Positions
    /\ rnd \in Tapes(TrendTapeLen)
    /\ clock \in UNION {ClockReadings(t0) : t0 \in StartTimes}
    /\ result = NoResult
    /\ ServerIdle

CallTrends ==
    /\ fn = "none"
    /\ fn' = "generate_performance_trends"
    /\ result' = generate_performance_trends(position, rnd, clock)
    /\ UNCHANGED <<position, rnd, clock, MOCK_PLAYERS_DB, requests>>

NextTrends == CallTrends

SpecTrends == InitTrends /\ [][NextTrends]_vars

(* --------------- specification: one call of the heat map --------------- *)

InitHeat ==
    /\ fn = "none"
    /\ position \in Positions
    /\ rnd \in Tapes(HeatTapeLen)
    /\ clock = NoClock
    /\ result = NoResult
    /\ ServerIdle

CallHeat ==
    /\ fn = "none"
    /\ fn' = "generate_heat_map_data"
    /\ result' = generate_heat_map_data(position, rnd)
    /\ UNCHANGED <<position, rnd, clock, MOCK_PLAYERS_DB, requests>>

NextHeat == CallHeat

SpecHeat == InitHeat /\ [][NextHeat]_vars

(* ------------------------- the request handlers ------------------------ *)

PlayerIds == {1, 2}
TeamIds == {57}
ServerPositions == {"Goalkeeper", "Striker"}
\* the random draws of one synthesis in a request: all lowest or all highest
ServerTapes == {<<0>>, <<UnitDen>>}
Reqs == 1..MaxRequests

\* what requests.get(url) yields: a status code with a body, or RequestException
UpstreamStatuses == {200, 404}
RequestException == 0
UpstreamOutcomes == UpstreamStatuses \cup {RequestException}

\* data.get("squad", []) of an upstream team: players with id and position
SquadPlayers == [id : PlayerIds, position : ServerPositions]
Squads == UNION {[1..n -> SquadPlayers] : n \in 0..MaxSquad}

IdleRequest == [pc |-> "idle"]

\* mutant: the membership test is made on what the cache held when the
\* request arrived
found_absent_at_arrival(req, db, player_id) == player_id \in req.missing
\* `player_id not in MOCK_PLAYERS_DB`, evaluated when the handler runs
found_absent(req, db, player_id) == player_id \notin DOMAIN db

\* mutant: the statistics are generated and stored on every request
get_or_create_always_store(req, db, player_id, pos, tape) ==
    (player_id :> generate_mock_player_stats(pos, tape)) @@ db
\* mutant: a miss rebinds the cache to a dict holding the new entry only
get_or_create_rebind(req, db, player_id, pos, tape) ==
    IF found_absent(req, db, player_id)
      THEN (player_id :> generate_mock_player_stats(pos, tape))
      ELSE db
\* "Generate or get cached statistics": the cache after the if statement
get_or_create(req, db, player_id, pos, tape) ==
    IF found_absent(req, db, player_id)
      THEN (player_id :> generate_mock_player_stats(pos, tape)) @@ db
      ELSE db

\* the response of a handler and what it did to the cache
Response(req, status, players, generated, db) ==
    [pc |-> "done", endpoint |-> req.endpoint, arg |-> req.arg, after |-> req.after,
     missing |-> req.missing, status |-> status, players |-> players,
     generated |-> generated, db |-> db]

\* mutant: the statistics are generated and stored before the status of the
\* upstream response is looked at
get_player_profile_store_first(req, db, outcome, pos, tape) ==
    LET player_id == req.arg
        db2 == get_or_create(req, db, player_id, pos, tape)
        generated == IF found_absent(req, db, player_id) THEN {player_id} ELSE {}
    IN  IF outcome = RequestException THEN Response(req, 500, <<>>, {}, db)
        ELSE IF outcome # 200 THEN Response(req, outcome, <<>>, generated, db2)
        ELSE Response(req, 200,
                      <<[id |-> player_id, position |-> pos, statistics |-> db2[player_id]]>>,
                      generated, db2)
\* get_player_profile(player_id) run to its end on the upstream outcome
get_player_profile(req, db, outcome, pos, tape) ==
    IF outcome = RequestException THEN Response(req, 500, <<>>, {}, db)
    ELSE IF outcome # 200 THEN Response(req, outcome, <<>>, {}, db)
    ELSE LET player_id == req.arg
             db2 == get_or_create(req, db, player_id, pos, tape)
         IN  Response(req, 200,
                      <<[id |-> player_id, position |-> pos, statistics |-> db2[player_id]]>>,
                      IF found_absent(req, db, player_id) THEN {player_id} ELSE {},
                      db2)

\* `for player in data.get("squad", [])`: passes k..Len(squad) of the loop
RECURSIVE squad_loop(_, _, _, _, _, _, _)
squad_loop(req, db, squad, tapes, k, players, generated) ==
    IF k > Len(squad) THEN Response(req, 200, players, generated, db)
    ELSE LET player_id == squad[k].id
             db2 == get_or_create(req, db, player_id, squad[k].position, tapes[k])
         IN  squad_loop(req, db2, squad, tapes, k + 1,
                        Append(players, [id |-> player_id, position |-> squad[k].position,
                                         statistics |-> db2[player_id]]),
                        IF found_absent(req, db, player_id)
                          THEN generated \cup {player_id} ELSE generated)

\* get_team_players(team_id) run to its end on the upstream outcome
get_team_players(req, db, outcome, squad, tapes) ==
    IF outcome = RequestException THEN Response(req, 500, <<>>, {}, db)
    ELSE IF outcome # 200 THEN Response(req, outcome, <<>>, {}, db)
    ELSE squad_loop(req, db, squad, tapes, 1, <<>>, {})

\* the player_ids strings of /players/compare, split at the commas and parsed
CompareLists == {<<1>>, <<1, 2>>}

\* `for player_id in player_id_list`: passes k..Len(ids) of the loop; a call
\* of get_player_profile that raises is skipped by the bare except
RECURSIVE compare_loop(_, _, _, _, _, _, _, _)
compare_loop(req, db, outcomes, poss, tapes, k, players, generated) ==
    IF k > Len(req.arg)
      THEN IF Len(players) < 2 THEN Response(req, 404, <<>>, generated, db)
           ELSE Response(req, 200, players, generated, db)
      ELSE LET call == get_player_profile([req EXCEPT !.arg = req.arg[k]], db,
                                          outcomes[k], poss[k], tapes[k])
           IN  compare_loop(req, call.db, outcomes, poss, tapes, k + 1,
                            IF call.status = 200 THEN players \o call.players ELSE players,
                            generated \cup call.generated)

\* compare_players(player_ids) run to its end on the outcomes of its fetches
compare_players(req, db, outcomes, poss, tapes) ==
    IF Len(req.arg) < 2 THEN Response(req, 400, <<>>, {}, db)
    ELSE compare_loop(req, db, outcomes, poss, tapes, 1, <<>>, {})

(* ---------------------- specification: the server ---------------------- *)

PureIdle ==
    /\ fn = "none"
    /\ position = ""
    /\ rnd = NoTape
    /\ clock = NoClock
    /\ result = NoResult

InitServer ==
    /\ PureIdle
    /\ MOCK_PLAYERS_DB = EmptyDB
    /\ requests = [r \in Reqs |-> IdleRequest]

Done == {r \in Reqs : requests[r].pc = "done"}

\* a request is routed to its handler's coroutine, which waits for the event
\* loop; the slots are taken in order
Arrive(r) ==
    /\ requests[r].pc = "idle"
    /\ \A q \in 1..(r - 1) : requests[q].pc # "idle"
    /\ \E endpoint \in {"get_player_profile", "get_team_players", "root"} :
       \E arg \in (IF endpoint = "get_player_profile" THEN PlayerIds
                   ELSE IF endpoint = "get_team_players" THEN TeamIds ELSE {0}) :
          requests' = [requests EXCEPT ![r] =
                          [pc |-> "pending", endpoint |-> endpoint, arg |-> arg,
                           after |-> Done,
                           missing |-> PlayerIds \ DOMAIN MOCK_PLAYERS_DB]]
    /\ UNCHANGED <<fn, position, rnd, clock, result, MOCK_PLAYERS_DB>>

\* the handler's coroutine has no await: it runs from the upstream fetch to
\* its return without another handler running in between
\* its request keeps the outcomes of the fetches it made and whether it
\* left the cache different from what it found
Finish(r, fetched, response) ==
    /\ requests' = [requests EXCEPT ![r] =
                       [x \in DOMAIN response \ {"db"} |-> response[x]] @@
                       [fetched |-> fetched, changed |-> response.db # MOCK_PLAYERS_DB]]
    /\ MOCK_PLAYERS_DB' = response.db
    /\ UNCHANGED <<fn, position, rnd, clock, result>>

\* the upstream bodies that matter to an outcome: none unless the status is 200
BodiesOf(outcome, bodies) == IF outcome = 200 THEN bodies ELSE {CHOOSE b \in bodies : TRUE}

\* the draws a synthesis for player_id may make: they matter only when the
\* handler can reach the synthesis
DrawsOf(player_id, db) ==
    IF player_id \in DOMAIN db THEN {CHOOSE t \in ServerTapes : TRUE} ELSE ServerTapes

HandlePlayerProfile(r) ==
    /\ requests[r].pc = "pending"
    /\ requests[r].endpoint = "get_player_profile"
    /\ \E outcome \in UpstreamOutcomes :
       \E pos \in BodiesOf(outcome, ServerPositions) :
       \E tape \in (IF outcome = 200 THEN DrawsOf(requests[r].arg, MOCK_PLAYERS_DB)
                    ELSE {CHOOSE t \in ServerTapes : TRUE}) :
          Finish(r, <<outcome>>,
                 get_player_profile(requests[r], MOCK_PLAYERS_DB, outcome, pos, tape))

HandleTeamPlayers(r) ==
    /\ requests[r].pc = "pending"
    /\ requests[r].endpoint = "get_team_players"
    /\ \E outcome \in UpstreamOutcomes :
       \E squad \in BodiesOf(outcome, Squads) :
       \E tapes \in {t \in [1..Len(squad) -> ServerTapes] :
                       \A k \in 1..Len(squad) :
                           t[k] \in DrawsOf(squad[k].id, MOCK_PLAYERS_DB)} :
          Finish(r, <<outcome>>,
                 get_team_players(requests[r], MOCK_PLAYERS_DB, outcome, squad, tapes))

\* root(): a handler that does not touch the cache
HandleRoot(r) ==
    /\ requests[r].pc = "pending"
    /\ requests[r].endpoint = "root"
    /\ Finish(r, <<>>, Response(requests[r], 200, <<>>, {}, MOCK_PLAYERS_DB))

NextServer ==
    \E r \in Reqs :
        \/ Arrive(r)
        \/ HandlePlayerProfile(r)
        \/ HandleTeamPlayers(r)
        \/ HandleRoot(r)

SpecServer == InitServer /\ [][NextServer]_vars

(* ------------ specification: the server with /players/compare ---------- *)

ArriveCompare(r) ==
    /\ requests[r].pc = "idle"
    /\ \A q \in 1..(r - 1) : requests[q].pc # "idle"
    /\ \E arg \in CompareLists :
          requests' = [requests EXCEPT ![r] =
                          [pc |-> "pending", endpoint |-> "compare_players", arg |-> arg,
                           after |-> Done,
                           missing |-> PlayerIds \ DOMAIN MOCK_PLAYERS_DB]]
    /\ UNCHANGED <<fn, position, rnd, clock, result, MOCK_PLAYERS_DB>>

\* the upstream body and the draws of each call compare_players makes
ComparePosition == "Striker"
CompareTape == <<UnitDen>>

\* the fetches compare_players makes: one for each id of a list of two or more
FetchesOf(ids) == IF Len(ids) < 2 THEN {} ELSE 1..Len(ids)

HandleComparePlayers(r) ==
    /\ requests[r].pc = "pending"
    /\ requests[r].endpoint = "compare_players"
    /\ LET ids == requests[r].arg IN
       \E outcomes \in [FetchesOf(ids) -> UpstreamOutcomes] :
          Finish(r, outcomes,
                 compare_players(requests[r], MOCK_PLAYERS_DB, outcomes,
                                 [k \in FetchesOf(ids) |-> ComparePosition],
                                 [k \in FetchesOf(ids) |-> CompareTape]))

NextCompare ==
    \E r \in Reqs :
        \/ Arrive(r)
        \/ ArriveCompare(r)
        \/ HandlePlayerProfile(r)
        \/ HandleTeamPlayers(r)
        \/ HandleComparePlayers(r)
        \/ HandleRoot(r)

SpecCompare == InitServer /\ [][NextCompare]_vars

(* ------------- documented tables the statistics claims use ------------- *)

StatsCalled == fn = "generate_mock_player_stats"

DocClass(pos) ==
    IF pos \in {"Goalkeeper", "Goalie"} THEN "Goalkeeper"
    ELSE IF pos \in {"Defender", "Centre-Back", "Left-Back", "Right-Back"} THEN "Defender"
    ELSE IF pos \in {"Midfielder", "Defensive Midfield", "Central Midfield",
                     "Attacking Midfield"} THEN "Midfielder"
    ELSE IF pos \in {"Winger", "Left Winger", "Right Winger"} THEN "Winger"
    ELSE IF pos \in {"Forward", "Centre-Forward", "Striker"} THEN "Forward"
    ELSE "Other"

\* step-1 ranges of the integer metrics
DocStep1 ==
    [appearances |-> <<15, 35>>, minutes_played |-> <<800, 2500>>,
     yellow_cards |-> <<0, 8>>, red_cards |-> <<0, 1>>,
     passes_completed |-> <<200, 1500>>, tackles |-> <<10, 80>>,
     interceptions |-> <<5, 60>>, aerial_duels_won |-> <<10, 100>>,
     shots |-> <<5, 80>>, shots_on_target |-> <<2, 40>>,
     dribbles_completed |-> <<5, 50>>, fouls_committed |-> <<5, 40>>,
     goals |-> <<0, 0>>, assists |-> <<0, 0>>, clean_sheets |-> <<0, 0>>]

\* ranges of the integer metrics each profile overrides
DocProfile(class) ==
    CASE class = "Goalkeeper" ->
           [goals |-> <<0, 0>>, assists |-> <<0, 2>>, saves |-> <<40, 120>>,
            clean_sheets |-> <<5, 15>>, goals_conceded |-> <<15, 45>>]
      [] class = "Defender" ->
           [goals |-> <<0, 5>>, assists |-> <<0, 8>>, tackles |-> <<30, 80>>,
            interceptions |-> <<20, 60>>, aerial_duels_won |-> <<30, 100>>,
            clean_sheets |-> <<8, 18>>]
      [] class = "Midfielder" ->
           [goals |-> <<2, 12>>, assists |-> <<3, 15>>,
            passes_completed |-> <<800, 1500>>, dribbles_completed |-> <<20, 50>>]
      [] class = "Winger" ->
           [goals |-> <<5, 15>>, assists |-> <<8, 20>>, dribbles_completed |-> <<30, 60>>,
            shots |-> <<30, 80>>, shots_on_target |-> <<15, 40>>]
      [] class = "Forward" ->
           [goals |-> <<8, 25>>, assists |-> <<3, 12>>, shots |-> <<50, 120>>,
            shots_on_target |-> <<25, 60>>, aerial_duels_won |-> <<40, 100>>]
      [] OTHER -> [f \in {} |-> <<0, 0>>]

\* range of the continuous metric pass_accuracy
DocPassAccuracy(class) ==
    CASE class = "Goalkeeper" -> <<40, 70>>
      [] class = "Midfielder" -> <<80, 95>>
      [] OTHER -> <<70, 95>>

DocRange(pos, f) ==
    IF f \in DOMAIN DocProfile(DocClass(pos)) THEN DocProfile(DocClass(pos))[f]
    ELSE DocStep1[f]

BaseKeys ==
    {"appearances", "minutes_played", "goals", "assists", "yellow_cards", "red_cards",
     "passes_completed", "pass_accuracy", "tackles", "interceptions", "aerial_duels_won",
     "shots", "shots_on_target", "dribbles_completed", "fouls_committed", "clean_sheets"}
DerivedKeys == {"shot_accuracy", "goals_per_90", "assists_per_90"}
GoalkeeperKeys == {"saves", "goals_conceded"}

InRange(x, range) == range[1] <= x /\ x <= range[2]

(* ------------------------------- claims -------------------------------- *)

\* C4: for every position, every sampled metric of the record returned by
\* generate_mock_player_stats lies in its documented inclusive range: the range
\* of the position's profile when the profile overrides the metric, the step-1
\* range otherwise (goals, assists and clean_sheets 0 when not overridden).
C4_SampledInRange ==
    StatsCalled =>
        /\ \A f \in (DOMAIN result) \ (DerivedKeys \cup {"pass_accuracy"}) :
               InRange(result[f], DocRange(position, f))
        /\ FracLeq(<<DocPassAccuracy(DocClass(position))[1], 1>>, result.pass_accuracy)
        /\ FracLeq(result.pass_accuracy, <<DocPassAccuracy(DocClass(position))[2], 1>>)

\* a Forward-class record whose shots reach the top of the profile's range,
\* above the step-1 range
C4_Witness ==
    /\ StatsCalled
    /\ position = "Centre-Forward"
    /\ result.shots = 120
    /\ result.appearances = 35
    /\ result.yellow_cards = 0

\* C5: "Goalkeeper" and "Goalie" always yield goals = 0 with the keys saves
\* (in [40,120]) and goals_conceded (in [15,45]) present; every other string
\* yields a record with neither key.
C5_GoalkeeperKeys ==
    StatsCalled =>
        IF position \in {"Goalkeeper", "Goalie"}
          THEN /\ result.goals = 0
               /\ GoalkeeperKeys \subseteq DOMAIN result
               /\ result.saves \in 40..120
               /\ result.goals_conceded \in 15..45
          ELSE GoalkeeperKeys \cap DOMAIN result = {}

C5_Witness ==
    /\ StatsCalled
    /\ position = "Goalie"
    /\ result.goals = 0
    /\ result.saves = 120
    /\ result.goals_conceded = 15

\* C6: the derived metrics are computed from the final base metrics (after the
\* position override): shot_accuracy = shots_on_target / shots * 100 when
\* shots > 0 and 0 otherwise, goals_per_90 and assists_per_90 likewise from
\* minutes_played; no derived metric has a zero denominator.
C6_DerivedFromFinal ==
    StatsCalled =>
        /\ result.shot_accuracy =
             (IF result.shots > 0
                THEN Frac(result.shots_on_target * 100, result.shots) ELSE <<0, 1>>)
        /\ result.goals_per_90 =
             (IF result.minutes_played > 0
                THEN Frac(result.goals * 90, result.minutes_played) ELSE <<0, 1>>)
        /\ result.assists_per_90 =
             (IF result.minutes_played > 0
                THEN Frac(result.assists * 90, result.minutes_played) ELSE <<0, 1>>)
        /\ \A k \in DerivedKeys : result[k][2] > 0

\* a Striker whose overridden shots and goals differ from the step-1 values
C6_Witness ==
    /\ StatsCalled
    /\ position = "Striker"
    /\ result.shots = 120 /\ result.shots_on_target = 25
    /\ result.shot_accuracy = <<125, 6>>
    /\ result.goals = 25 /\ result.minutes_played = 800
    /\ result.goals_per_90 = <<45, 16>>

\* C7: a position equal to no listed label gets no override: its base metrics
\* are the step-1 values (goals = assists = clean_sheets = 0) and its keys are
\* exactly the 16 base and 3 derived metrics; for a listed label only the
\* fields its profile lists differ from the step-1 values.
C7_OnlyListedOverridden ==
    StatsCalled =>
        LET class == DocClass(position)
            listed == DOMAIN DocProfile(class)
                        \cup (IF class \in {"Goalkeeper", "Midfielder"}
                                THEN {"pass_accuracy"} ELSE {})
        IN  /\ \A f \in BaseKeys \ listed : result[f] = base_stats(rnd)[f]
            /\ DOMAIN result = BaseKeys \cup DerivedKeys \cup (listed \ BaseKeys)
            /\ class = "Other" =>
                  /\ result.goals = 0 /\ result.assists = 0 /\ result.clean_sheets = 0
                  /\ DOMAIN result = BaseKeys \cup DerivedKeys

\* a differently capitalised label falls to the default branch
C7_Witness ==
    /\ StatsCalled
    /\ position = "goalkeeper"
    /\ result.goals = 0
    /\ result.shots = 80
    /\ Cardinality(DOMAIN result) = 19


(* --------------------------- trends claims ----------------------------- *)

TrendsCalled == fn = "generate_performance_trends"

TrendKeys == {"matches", "goals", "assists", "rating", "minutes"}

\* the calendar date of a datetime
DateOf(dt) == civil_from_days(dt \div TicksPerDay)

\* C8: for every position and every time of call, generate_performance_trends
\* returns five index-aligned sequences of exactly 10 entries; consecutive
\* dates are exactly 7 days apart (so strictly increasing), the first date is
\* 63 days before the date of the call and the last date is the current date.
C8_WeeklyDates ==
    TrendsCalled =>
        /\ DOMAIN result = TrendKeys
        /\ \A k \in TrendKeys : Len(result[k]) = 10
        /\ \A i \in 1..9 :
              days_from_civil(result.matches[i + 1]) - days_from_civil(result.matches[i]) = 7
        /\ days_from_civil(result.matches[1]) = days_from_civil(DateOf(clock[1])) - 63
        /\ result.matches[10] = DateOf(clock[10])

\* C9: every per-match entry lies in the range of the position's class: goals
\* [0,2] and assists [0,1] for exactly "Forward", "Striker", "Winger"; goals
\* [0,1] and assists [0,2] for exactly "Midfielder"; goals and assists [0,1]
\* for every other string; rating a multiple of 0.1 in [6.0,9.5]; minutes an
\* integer in [60,90].
C9_TrendRanges ==
    TrendsCalled =>
        \A i \in 1..Len(result.goals) :
            /\ IF position \in {"Forward", "Striker", "Winger"}
                  THEN result.goals[i] \in 0..2 /\ result.assists[i] \in 0..1
                ELSE IF position = "Midfielder"
                  THEN result.goals[i] \in 0..1 /\ result.assists[i] \in 0..2
                ELSE result.goals[i] \in 0..1 /\ result.assists[i] \in 0..1
            /\ (10 * result.rating[i][1]) % result.rating[i][2] = 0
            /\ FracLeq(<<6, 1>>, result.rating[i])
            /\ FracLeq(result.rating[i], <<19, 2>>)
            /\ result.minutes[i] \in 60..90

\* a Winger scores 2 in a match, a rating is rounded from 7.75 to 7.8
C9_Witness ==
    /\ TrendsCalled
    /\ position = "Winger"
    /\ Len(result.goals) = 10
    /\ \E i \in 1..10 : result.goals[i] = 2 /\ result.assists[i] = 1
    /\ \E i \in 1..10 : result.rating[i] = <<39, 5>>
    /\ \E i \in 1..10 : result.minutes[i] = 90

(* -------------------------- heat map claims ---------------------------- *)

HeatCalled == fn = "generate_heat_map_data"

\* the documented range of a cell in column j (from 0)
DocHeatRange(pos, j) ==
    IF pos \in {"Goalkeeper", "Goalie"} THEN (IF j < 3 THEN <<20, 80>> ELSE <<0, 10>>)
    ELSE IF pos = "Defender" THEN (IF j < 5 THEN <<30, 90>> ELSE <<5, 40>>)
    ELSE IF pos = "Midfielder" THEN (IF j >= 2 /\ j <= 7 THEN <<40, 100>> ELSE <<10, 50>>)
    ELSE IF pos \in {"Forward", "Striker"} THEN (IF j >= 5 THEN <<50, 100>> ELSE <<10, 60>>)
    ELSE <<10, 80>>

\* C10: the grid has exactly 10 rows of 10 non-negative integer cells, and
\* every cell (i, j) lies in the range its column j and the position choose,
\* whatever the row i.
C10_HeatCellRanges ==
    HeatCalled =>
        /\ DOMAIN result.grid = 1..10
        /\ \A i \in 1..10 :
              /\ DOMAIN result.grid[i] = 1..10
              /\ \A j \in 1..10 :
                    /\ result.grid[i][j] \in Nat
                    /\ InRange(result.grid[i][j], DocHeatRange(position, j - 1))

\* a Midfielder's grid: column 2 is in the middle zone, column 8 is not
C10_Witness ==
    /\ HeatCalled
    /\ position = "Midfielder"
    /\ \E i \in 1..10 : result.grid[i][3] = 40
    /\ \E i \in 1..10 : result.grid[i][3] = 100
    /\ \E i \in 1..10 : result.grid[i][9] = 10

\* C11: max_value and min_value are the true maximum and minimum over all 100
\* cells of the returned grid: every cell lies between them and each of the
\* two is the value of at least one cell.
C11_TrueMinMax ==
    HeatCalled =>
        /\ \A i \in 1..10, j \in 1..10 :
              result.min_value <= result.grid[i][j] /\ result.grid[i][j] <= result.max_value
        /\ \E i \in 1..10, j \in 1..10 : result.grid[i][j] = result.max_value
        /\ \E i \in 1..10, j \in 1..10 : result.grid[i][j] = result.min_value

\* a goalkeeper's grid whose largest cell is not in the first row, and a
\* midfielder's grid whose smallest cell is not in the first row
C11_Witness ==
    /\ HeatCalled
    /\ \/ /\ position = "Goalkeeper"
          /\ result.max_value = 80
          /\ \A j \in 1..10 : result.grid[1][j] < 80
       \/ /\ position = "Midfielder"
          /\ result.min_value = 10
          /\ \A j \in 1..10 : result.grid[1][j] > 10

(* ----------------------------- cache claims --------------------------- *)

\* the statistics records request r returned for player_id
StatsReturned(r, player_id) ==
    {requests[r].players[k].statistics :
        k \in {j \in DOMAIN requests[r].players : requests[r].players[j].id = player_id}}

\* r1 had returned when r2 arrived
Sequential(r1, r2) == requests[r2].pc # "idle" /\ r1 \in requests[r2].after

\* r1 and r2 were pending at the same time
Concurrent(r1, r2) ==
    /\ r1 # r2
    /\ requests[r1].pc # "idle" /\ requests[r2].pc # "idle"
    /\ r1 \notin requests[r2].after /\ r2 \notin requests[r1].after

\* C1: when two requests for a player_id are served one after the other,
\* through either handler and whatever position labels they carry, the second
\* returns the record the first returned and does not call
\* generate_mock_player_stats for that id.
C1_SecondReturnsStored ==
    \A r1 \in Done, r2 \in Done, player_id \in PlayerIds :
        (Sequential(r1, r2) /\ StatsReturned(r1, player_id) # {}
                            /\ StatsReturned(r2, player_id) # {}) =>
            /\ player_id \notin requests[r2].generated
            /\ StatsReturned(r2, player_id) = StatsReturned(r1, player_id)
            /\ Cardinality(StatsReturned(r1, player_id)) = 1

\* a profile request synthesizes a goalkeeper record for player 1; a later
\* team request that labels player 1 a Striker returns that same record
C1_Witness ==
    \E r1 \in Done, r2 \in Done :
        /\ Sequential(r1, r2)
        /\ 1 \in DOMAIN MOCK_PLAYERS_DB
        /\ requests[r1].endpoint = "get_player_profile"
        /\ requests[r1].players = <<[id |-> 1, position |-> "Goalkeeper",
                                     statistics |-> MOCK_PLAYERS_DB[1]]>>
        /\ requests[r1].generated = {1}
        /\ requests[r2].endpoint = "get_team_players"
        /\ requests[r2].players = <<[id |-> 1, position |-> "Striker",
                                     statistics |-> MOCK_PLAYERS_DB[1]]>>
        /\ "saves" \in DOMAIN MOCK_PLAYERS_DB[1]

\* C2: MOCK_PLAYERS_DB only grows: no step of any handler removes an entry or
\* changes the record stored for a player_id.
C2_CacheOnlyGrows ==
    [][\A player_id \in DOMAIN MOCK_PLAYERS_DB :
          /\ player_id \in DOMAIN MOCK_PLAYERS_DB'
          /\ MOCK_PLAYERS_DB'[player_id] = MOCK_PLAYERS_DB[player_id]]_vars

\* the entry of player 1 is still what the first request returned after a
\* later request has synthesized an entry for player 2
C2_Witness ==
    \E r1 \in Done, r2 \in Done :
        /\ Sequential(r1, r2)
        /\ requests[r1].generated = {1}
        /\ requests[r2].generated = {2}
        /\ DOMAIN MOCK_PLAYERS_DB = {1, 2}
        /\ StatsReturned(r1, 1) = {MOCK_PLAYERS_DB[1]}
        /\ MOCK_PLAYERS_DB[1] # MOCK_PLAYERS_DB[2]

\* two requests, pending at the same time, that both returned statistics for
\* a player_id the cache did not hold when either arrived
RacingPair(r1, r2, player_id) ==
    /\ r1 \in Done /\ r2 \in Done
    /\ Concurrent(r1, r2)
    /\ player_id \in requests[r1].missing \cap requests[r2].missing
    /\ StatsReturned(r1, player_id) # {} /\ StatsReturned(r2, player_id) # {}

\* C3 as claimed: two concurrent requests for the same uncached player_id both
\* find the id absent and both call generate_mock_player_stats, the later
\* store overwriting the earlier.
C3_BothSynthesize ==
    \A r1 \in Reqs, r2 \in Reqs, player_id \in PlayerIds :
        RacingPair(r1, r2, player_id) =>
            /\ player_id \in requests[r1].generated
            /\ player_id \in requests[r2].generated

\* C3 as amended: of two concurrent requests for the same uncached player_id
\* at most one finds the id absent and calls generate_mock_player_stats, and
\* both return the same record: a handler's membership test and store run
\* without another handler in between.
C3_CheckThenSetAtomic ==
    \A r1 \in Reqs, r2 \in Reqs, player_id \in PlayerIds :
        RacingPair(r1, r2, player_id) =>
            /\ ~(player_id \in requests[r1].generated /\ player_id \in requests[r2].generated)
            /\ StatsReturned(r1, player_id) = StatsReturned(r2, player_id)

\* two profile requests for player 1 were pending together while the cache
\* was empty; the one that ran first synthesized, the other did not
C3_Witness ==
    \E r1 \in Reqs, r2 \in Reqs :
        /\ RacingPair(r1, r2, 1)
        /\ requests[r1].endpoint = "get_player_profile"
        /\ requests[r2].endpoint = "get_player_profile"
        /\ requests[r1].generated = {1}
        /\ requests[r2].generated = {}
        /\ requests[r1].players[1].position # requests[r2].players[1].position

(* ------------------------ upstream error claims ------------------------ *)

\* a status an upstream fetch returned that is not 200
UpstreamError(s) == s \in UpstreamStatuses \ {200}

DirectEndpoints == {"get_player_profile", "get_team_players"}

\* the request ends with the status its failed fetch returned, after no
\* synthesis and with the cache as the handler found it
PassedThrough(r, k) ==
    /\ requests[r].status = requests[r].fetched[k]
    /\ requests[r].players = <<>>
    /\ requests[r].generated = {}
    /\ ~requests[r].changed

\* a request that wrote the cache had a fetch that returned 200
WrittenAfter200(r) ==
    (requests[r].changed \/ requests[r].generated # {}) =>
        \E k \in DOMAIN requests[r].fetched : requests[r].fetched[k] = 200

\* C12 as stated: whenever a fetch made by get_player_profile or
\* get_team_players returns a status other than 200, the request it was
\* made for ends in an error with that status, has synthesized nothing and
\* has left MOCK_PLAYERS_DB as it was; the cache is written only after a 200
C12_UpstreamErrorPassedThrough ==
    \A r \in Done :
        /\ \A k \in DOMAIN requests[r].fetched :
               UpstreamError(requests[r].fetched[k]) => PassedThrough(r, k)
        /\ WrittenAfter200(r)

\* C12: a request to /player/{id} or /team/{id}/players whose upstream fetch
\* returns a status other than 200 ends in an error with that status, has
\* synthesized nothing and has left MOCK_PLAYERS_DB as it was; every request
\* writes the cache only after a fetch that returned 200; compare_players
\* skips a player whose fetch failed, synthesizes only for players whose
\* fetch returned 200 and ends with 200, 400 or 404
C12_DirectErrorPassedThrough ==
    \A r \in Done :
        /\ requests[r].endpoint \in DirectEndpoints =>
               \A k \in DOMAIN requests[r].fetched :
                   UpstreamError(requests[r].fetched[k]) => PassedThrough(r, k)
        /\ WrittenAfter200(r)
        /\ requests[r].endpoint = "compare_players" =>
               /\ requests[r].status \in {200, 400, 404}
               /\ requests[r].generated \subseteq
                      {requests[r].arg[k] : k \in {i \in DOMAIN requests[r].fetched :
                                                       requests[r].fetched[i] = 200}}

\* a direct request met a 404 when the cache already held an entry, and a
\* compare request went on after a 404 to synthesize for its other player
C12_Witness ==
    /\ \E r \in Done :
          /\ requests[r].endpoint \in DirectEndpoints
          /\ requests[r].fetched = <<404>>
          /\ requests[r].status = 404
          /\ requests[r].missing # PlayerIds
          /\ ~requests[r].changed
    /\ \E q \in Done :
          /\ requests[q].endpoint = "compare_players"
          /\ requests[q].fetched = <<404, 200>>
          /\ requests[q].generated = {2}

(* ---------------------------- shots claims ----------------------------- *)

\* C13: in every record generate_mock_player_stats returns, for every
\* position, shots_on_target does not exceed shots, and shot_accuracy lies
\* in [0, 100]
C13_ShotsOnTargetWithinShots ==
    StatsCalled =>
        /\ result.shots_on_target <= result.shots
        /\ FracLeq(<<0, 1>>, result.shot_accuracy)
        /\ FracLeq(result.shot_accuracy, <<100, 1>>)

====
